---- MODULE Spec2Model ----
(***************************************************************************)
(* simplecv/util/logger.py: the SmoothedValue tracker (a bounded window    *)
(* with a running sum) and the Logger that keeps one tracker per metric    *)
(* name and optionally writes summaries through a tensorboard writer.      *)
(*                                                                         *)
(* Observations are modelled as small non-negative integers and every      *)
(* quotient (np.mean, np.median, total / count) as an exact fraction       *)
(* num/den in lowest terms, so equal quotients are equal records.          *)
(*                                                                         *)
(* Two specifications share the module: Spec drives one SmoothedValue      *)
(* through its four methods; LoggerSpec drives one Logger.                 *)
(***************************************************************************)
EXTENDS Integers, Sequences, FiniteSets

VARIABLES
    tracker,          \* a SmoothedValue: [maxlen, deque, series, total, count]
    op,               \* the SmoothedValue method called last ("init" after __init__)
    result,           \* what that call returned or raised
    use_tensorboard,  \* Logger.use_tensorboard
    summary_w,        \* TRUE iff the Logger has the attribute summary_w
    smoothvalues,     \* Logger.smoothvalues: metric name -> SmoothedValue
    call,             \* the Logger method called last, with its arguments
    returned,         \* the mapping create_or_get_smoothvalues returned last
    observed,         \* history: the metric names passed to the Logger so far
    raised            \* the exception the last Logger call ended in, or "none"

svVars == <<tracker, op, result>>
logVars == <<use_tensorboard, summary_w, smoothvalues, call, returned, observed, raised>>
vars == <<tracker, op, result, use_tensorboard, summary_w, smoothvalues, call,
          returned, observed, raised>>

----------------------------------------------------------------------------
(* Bounds of the model *)

\* largest window capacity a stand-alone tracker is constructed with
MaxCap == 3
\* largest observation
MaxVal == 4
\* number of add_value calls on the stand-alone tracker
MaxLen == 4
\* number of observations per metric name in the Logger
MaxObs == 2
\* largest loss value handed to the Logger
MaxLoss == 2

\* SmoothedValue(100) in Logger.create_or_get_smoothvalues
LoggerWindow == 100
\* train_log writes a summary when step % 100 == 0
SummaryPeriod == 100

Values == 0..MaxVal
Capacities == 0..MaxCap
LossValues == 1..MaxLoss
Names == {"loss", "cls_loss"}
Steps == {0, 50, 100}
MetricKinds == {"float", "ndarray", "int"}

----------------------------------------------------------------------------
(* Numbers *)

RECURSIVE GCD(_, _)
GCD(a, b) == IF b = 0 THEN a ELSE GCD(b, a % b)

Min(a, b) == IF a <= b THEN a ELSE b

\* a returned number n/d (d > 0, n >= 0), in lowest terms
Number(n, d) ==
    LET g == GCD(n, d) IN [kind |-> "value", num |-> n \div g, den |-> d \div g]

NaN == [kind |-> "nan", num |-> 0, den |-> 1]
ZeroDivisionError == [kind |-> "ZeroDivisionError", num |-> 0, den |-> 1]
NoResult == [kind |-> "none", num |-> 0, den |-> 1]

RECURSIVE Sum(_)
Sum(s) == IF s = <<>> THEN 0 ELSE Head(s) + Sum(Tail(s))

RECURSIVE Insert(_, _)
Insert(x, s) ==
    IF s = <<>> THEN <<x>>
    ELSE IF x <= Head(s) THEN <<x>> \o s
    ELSE <<Head(s)>> \o Insert(x, Tail(s))

RECURSIVE Sort(_)
Sort(s) == IF s = <<>> THEN <<>> ELSE Insert(Head(s), Sort(Tail(s)))

\* variant: a zero divisor gives nan, as numpy's division does
TrueDivNaN(n, d) == IF d = 0 THEN NaN ELSE Number(n, d)

\* Python's float / int: raises on a zero divisor
TrueDiv(n, d) == IF d = 0 THEN ZeroDivisionError ELSE Number(n, d)

\* variant: the mean computed as sum / len in Python, raising on an empty one
NpMeanRaising(s) == IF Len(s) = 0 THEN ZeroDivisionError ELSE Number(Sum(s), Len(s))

\* np.mean of a sequence: nan (with a RuntimeWarning) on an empty one
NpMean(s) == IF Len(s) = 0 THEN NaN ELSE Number(Sum(s), Len(s))

\* variant: the upper middle element also for an even length
NpMedianUpper(s) ==
    LET n == Len(s)
        t == Sort(s)
    IN  IF n = 0 THEN NaN ELSE Number(t[(n \div 2) + 1], 1)

\* np.median of a sequence: sorts a copy; the middle element, or the mean of
\* the two middle elements; nan on an empty one
NpMedian(s) ==
    LET n == Len(s)
        t == Sort(s)
    IN  IF n = 0 THEN NaN
        ELSE IF n % 2 = 1 THEN Number(t[(n \div 2) + 1], 1)
        ELSE Number(t[n \div 2] + t[(n \div 2) + 1], 2)

----------------------------------------------------------------------------
(* collections.deque(maxlen=...) *)

\* variant: a full deque discards its newest item instead of its oldest
DequeAppendDropNewest(dq, maxlen, v) ==
    IF maxlen = 0 THEN <<>>
    ELSE IF Len(dq) >= maxlen THEN Append(SubSeq(dq, 1, Len(dq) - 1), v)
    ELSE Append(dq, v)

\* append on the right; a full deque discards one item from the left
DequeAppend(dq, maxlen, v) ==
    IF maxlen = 0 THEN <<>>
    ELSE IF Len(dq) >= maxlen THEN Append(Tail(dq), v)
    ELSE Append(dq, v)

----------------------------------------------------------------------------
(* SmoothedValue *)

\* SmoothedValue.__init__(window_size)
NewSmoothedValue(window_size) ==
    [maxlen |-> window_size, deque |-> <<>>, series |-> <<>>, total |-> 0, count |-> 0]

\* variant: add_value without the update of total
AddValueNoTotal(t, v) ==
    [t EXCEPT !.deque = DequeAppend(t.deque, t.maxlen, v),
              !.series = Append(t.series, v),
              !.count = t.count + 1]

\* SmoothedValue.add_value(value), as a function of the object
AddValue(t, v) ==
    [t EXCEPT !.deque = DequeAppend(t.deque, t.maxlen, v),
              !.series = Append(t.series, v),
              !.count = t.count + 1,
              !.total = t.total + v]

Queries == {"get_median_value", "get_average_value", "get_global_average_value"}

InitTracker ==
    /\ tracker \in {NewSmoothedValue(w) : w \in Capacities}
    /\ op = "init"
    /\ result = NoResult

add_value(v) ==
    /\ tracker.count < MaxLen
    /\ tracker' = AddValue(tracker, v)
    /\ op' = "add_value"
    /\ result' = NoResult
    /\ UNCHANGED logVars

\* variant: the median taken by sorting the deque itself
get_median_value_in_place ==
    /\ op' = "get_median_value"
    /\ result' = NpMedian(tracker.deque)
    /\ tracker' = [tracker EXCEPT !.deque = Sort(tracker.deque)]
    /\ UNCHANGED logVars

get_median_value ==
    /\ op' = "get_median_value"
    /\ result' = NpMedian(tracker.deque)
    /\ UNCHANGED tracker
    /\ UNCHANGED logVars

\* variant: the windowed average answered with total / count
get_average_value_global ==
    /\ op' = "get_average_value"
    /\ result' = TrueDiv(tracker.total, tracker.count)
    /\ UNCHANGED tracker
    /\ UNCHANGED logVars

get_average_value ==
    /\ op' = "get_average_value"
    /\ result' = NpMean(tracker.deque)
    /\ UNCHANGED tracker
    /\ UNCHANGED logVars

get_global_average_value ==
    /\ op' = "get_global_average_value"
    /\ result' = TrueDiv(tracker.total, tracker.count)
    /\ UNCHANGED tracker
    /\ UNCHANGED logVars

----------------------------------------------------------------------------
(* Logger *)

NoCall == [name |-> "init", loss_dict |-> <<>>, step |-> 0, metrics |-> {}]

\* the mappings from some metric names to a loss value
LossDicts == UNION {[ks -> LossValues] : ks \in SUBSET Names}

\* Logger.__init__: use_tensorboard without a logdir raises ValueError and
\* constructs nothing; the writer is created only when use_tensorboard is set
InitLogger ==
    /\ \E tb \in BOOLEAN, logdir \in {"None", "dir"} :
          /\ ~(tb /\ logdir = "None")
          /\ use_tensorboard = tb
          /\ summary_w = tb
    /\ smoothvalues = <<>>
    /\ call = NoCall
    /\ returned = <<>>
    /\ observed = {}
    /\ raised = "none"

\* variant: a new tracker for every key of the input, known or not
UpdateAlwaysCreate(sv, loss_dict) ==
    [k \in (DOMAIN sv) \cup (DOMAIN loss_dict) |->
        IF k \in DOMAIN loss_dict
        THEN AddValue(NewSmoothedValue(LoggerWindow), loss_dict[k])
        ELSE sv[k]]

\* the loop of create_or_get_smoothvalues: look up or create the tracker of
\* every key and add its value
UpdateSmoothvalues(sv, loss_dict) ==
    [k \in (DOMAIN sv) \cup (DOMAIN loss_dict) |->
        IF k \in DOMAIN loss_dict
        THEN AddValue(IF k \in DOMAIN sv THEN sv[k] ELSE NewSmoothedValue(LoggerWindow),
                      loss_dict[k])
        ELSE sv[k]]

\* the returned dict: the windowed average of every tracker of the registry
AverageSnapshot(sv) == [k \in DOMAIN sv |-> NpMean(sv[k].deque)]

\* variant: the returned mapping built over the keys of the input only
CreateOrGetInputOnly(loss_dict) ==
    LET sv == UpdateSmoothvalues(smoothvalues, loss_dict) IN
    /\ smoothvalues' = sv
    /\ returned' = [k \in DOMAIN loss_dict |-> NpMean(sv[k].deque)]
    /\ observed' = observed \cup DOMAIN loss_dict

\* the body of create_or_get_smoothvalues
CreateOrGetSmoothvalues(loss_dict) ==
    LET sv == UpdateSmoothvalues(smoothvalues, loss_dict) IN
    /\ smoothvalues' = sv
    /\ returned' = AverageSnapshot(sv)
    /\ observed' = observed \cup DOMAIN loss_dict

\* the bound of the model: no tracker of the input has MaxObs observations yet
Room(loss_dict) ==
    \A k \in DOMAIN loss_dict :
        k \in DOMAIN smoothvalues => smoothvalues[k].count < MaxObs

create_or_get_smoothvalues(loss_dict) ==
    /\ Room(loss_dict)
    /\ CreateOrGetSmoothvalues(loss_dict)
    /\ call' = [name |-> "create_or_get_smoothvalues", loss_dict |-> loss_dict,
                step |-> 0, metrics |-> {}]
    /\ raised' = "none"
    /\ UNCHANGED <<use_tensorboard, summary_w>>
    /\ UNCHANGED svVars

on ==
    /\ use_tensorboard' = TRUE
    /\ call' = [NoCall EXCEPT !.name = "on"]
    /\ raised' = "none"
    /\ UNCHANGED <<summary_w, smoothvalues, returned, observed>>
    /\ UNCHANGED svVars

off ==
    /\ use_tensorboard' = FALSE
    /\ call' = [NoCall EXCEPT !.name = "off"]
    /\ raised' = "none"
    /\ UNCHANGED <<summary_w, smoothvalues, returned, observed>>
    /\ UNCHANGED svVars

\* train_summary reads self.summary_w on every path (line 99 at the latest)
TrainSummaryOutcome == IF summary_w THEN "none" ELSE "AttributeError"

\* eval_summary reads self.summary_w only for a float or an ndarray metric
EvalSummaryOutcome(metrics) ==
    IF summary_w \/ metrics \cap {"float", "ndarray"} = {}
    THEN "none" ELSE "AttributeError"

train_log(step, loss_dict) ==
    /\ Room(loss_dict)
    /\ CreateOrGetSmoothvalues(loss_dict)
    /\ call' = [name |-> "train_log", loss_dict |-> loss_dict,
                step |-> step, metrics |-> {}]
    /\ raised' = IF use_tensorboard /\ step % SummaryPeriod = 0
                 THEN TrainSummaryOutcome ELSE "none"
    /\ UNCHANGED <<use_tensorboard, summary_w>>
    /\ UNCHANGED svVars

eval_log(metrics) ==
    /\ call' = [NoCall EXCEPT !.name = "eval_log", !.metrics = metrics]
    /\ raised' = IF use_tensorboard THEN EvalSummaryOutcome(metrics) ELSE "none"
    /\ UNCHANGED <<use_tensorboard, summary_w, smoothvalues, returned, observed>>
    /\ UNCHANGED svVars

----------------------------------------------------------------------------
(* Specifications *)

\* one SmoothedValue; the Logger is constructed and left alone
Init ==
    /\ InitTracker
    /\ use_tensorboard = FALSE
    /\ summary_w = FALSE
    /\ smoothvalues = <<>>
    /\ call = NoCall
    /\ returned = <<>>
    /\ observed = {}
    /\ raised = "none"

Next ==
    \/ \E v \in Values : add_value(v)
    \/ get_median_value
    \/ get_average_value
    \/ get_global_average_value

Spec == Init /\ [][Next]_vars

\* one Logger; the stand-alone tracker is constructed and left alone
LoggerInit ==
    /\ InitLogger
    /\ tracker = NewSmoothedValue(LoggerWindow)
    /\ op = "init"
    /\ result = NoResult

LoggerNext ==
    \/ \E ld \in LossDicts : create_or_get_smoothvalues(ld)
    \/ \E s \in Steps, ld \in LossDicts : train_log(s, ld)
    \/ \E ms \in SUBSET MetricKinds : eval_log(ms)
    \/ on
    \/ off

LoggerSpec == LoggerInit /\ [][LoggerNext]_vars

----------------------------------------------------------------------------
(* Properties of SmoothedValue, checked under Spec *)

\* the last n elements of s
LastN(s, n) == SubSeq(s, Len(s) - n + 1, Len(s))

\* the window the series defines: its last min(N, count) elements
WindowOf(t) == LastN(t.series, Min(t.maxlen, Len(t.series)))

\* r is the fraction p/q
IsQuotient(r, p, q) == r.kind = "value" /\ r.num * q = r.den * p

\* x is the k-th smallest element of w (k in 1..Len(w))
IsOrderStat(w, k, x) ==
    /\ \E i \in 1..Len(w) : w[i] = x
    /\ Cardinality({i \in 1..Len(w) : w[i] < x}) <= k - 1
    /\ Cardinality({i \in 1..Len(w) : w[i] <= x}) >= k

\* r is the median of the non-empty sequence w
IsMedian(r, w) ==
    LET n == Len(w) IN
    IF n % 2 = 1
    THEN \E x \in Values : IsOrderStat(w, (n + 1) \div 2, x) /\ IsQuotient(r, x, 1)
    ELSE \E a, b \in Values :
            /\ IsOrderStat(w, n \div 2, a)
            /\ IsOrderStat(w, (n \div 2) + 1, b)
            /\ IsQuotient(r, a + b, 2)

\* C1: total is the sum of the series, count its length, and the deque is,
\* in order, the last min(N, count) elements of the series; so the deque
\* never holds more than N elements and eviction is first in, first out.
TrackerInvariant ==
    /\ tracker.total = Sum(tracker.series)
    /\ tracker.count = Len(tracker.series)
    /\ tracker.deque = WindowOf(tracker)
    /\ Len(tracker.deque) <= tracker.maxlen
    /\ (tracker.maxlen >= 1 /\ tracker.count = tracker.maxlen + 1)
          => tracker.deque = Tail(tracker.series)

\* C1 witness: N + 1 additions, the first of them evicted
TrackerEvicted ==
    /\ tracker.maxlen >= 2
    /\ tracker.count = tracker.maxlen + 1
    /\ tracker.series[1] # tracker.series[2]
    /\ tracker.deque = Tail(tracker.series)

\* C2: with capacity W >= 1 and K >= 1 values added, get_average_value
\* returns the mean of the last min(K, W) values added.
AverageIsWindowMean ==
    (op = "get_average_value" /\ tracker.maxlen >= 1 /\ tracker.count >= 1)
        => IsQuotient(result, Sum(WindowOf(tracker)), Min(tracker.count, tracker.maxlen))

\* C2 witness: an average taken after an eviction that changed the sum
AverageAfterEviction ==
    /\ op = "get_average_value"
    /\ tracker.maxlen >= 1
    /\ tracker.count > tracker.maxlen
    /\ Sum(tracker.series) # Sum(tracker.deque)
    /\ result.kind = "value"

\* C3: with at least one value added, get_global_average_value returns the
\* mean of all values ever added, whatever the capacity and the evictions.
GlobalAverageIsSeriesMean ==
    (op = "get_global_average_value" /\ tracker.count >= 1)
        => IsQuotient(result, Sum(tracker.series), Len(tracker.series))

\* C3 witness: a global average that counts an evicted value
GlobalAverageAfterEviction ==
    /\ op = "get_global_average_value"
    /\ tracker.maxlen = 1
    /\ tracker.series = <<0, 4>>
    /\ result = Number(2, 1)

\* C4: on a non-empty window get_median_value returns the median of the
\* window alone (the middle element, or the mean of the two middle ones);
\* one value v on a fresh tracker makes median, average and global average
\* all v; capacity 3 with 1, 2, 3, 4 added gives median 3, average 3 and
\* global average 5/2.
MedianIsWindowMedian ==
    /\ (op = "get_median_value" /\ tracker.maxlen >= 1 /\ tracker.count >= 1)
          => IsMedian(result, WindowOf(tracker))
    /\ (op \in Queries /\ tracker.maxlen >= 1 /\ tracker.count = 1)
          => result = Number(tracker.series[1], 1)
    /\ (tracker.maxlen = 3 /\ tracker.series = <<1, 2, 3, 4>>)
          => /\ op = "get_median_value" => result = Number(3, 1)
             /\ op = "get_average_value" => result = Number(3, 1)
             /\ op = "get_global_average_value" => result = Number(5, 2)

\* C4 witness: the median of the scenario, after 1 has been evicted
MedianScenario ==
    /\ op = "get_median_value"
    /\ tracker.maxlen = 3
    /\ tracker.series = <<1, 2, 3, 4>>
    /\ tracker.deque = <<2, 3, 4>>
    /\ result = Number(3, 1)

\* C5: get_global_average_value with no value added raises
\* ZeroDivisionError, returns no number and leaves the tracker as it was.
GlobalAverageOfNothingRaises ==
    [][(op' = "get_global_average_value" /\ tracker.count = 0)
          => (result'.kind = "ZeroDivisionError" /\ tracker' = tracker)]_vars

\* C5 witness: the query was made on a fresh tracker and raised
GlobalAverageRaised ==
    /\ op = "get_global_average_value"
    /\ tracker.count = 0
    /\ result.kind = "ZeroDivisionError"

\* C6 as stated: get_average_value or get_median_value before any add_value
\* ends in an error, not in a returned value.
EmptyWindowQueryRaises ==
    (op \in {"get_average_value", "get_median_value"} /\ tracker.count = 0)
        => result.kind \notin {"value", "nan"}

\* C6 as amended: get_average_value or get_median_value on an empty window
\* returns NaN; no exception is raised.
EmptyWindowQueryReturnsNaN ==
    (op \in {"get_average_value", "get_median_value"} /\ Len(tracker.deque) = 0)
        => result.kind = "nan"

\* C6 witness: the average of a fresh tracker came back as NaN
EmptyAverageReturned ==
    /\ op = "get_average_value"
    /\ tracker.count = 0
    /\ result = NaN

\* C7: the three queries leave the tracker unchanged, and a query repeated
\* with no add_value in between returns what it returned before.
QueriesReadOnly ==
    [][/\ op' \in Queries => tracker' = tracker
       /\ (op \in Queries /\ op' = op) => result' = result]_vars

\* C7 witness: a median was taken on a window that is not sorted
MedianOfUnsortedWindow ==
    /\ op = "get_median_value"
    /\ Len(tracker.deque) >= 2
    /\ tracker.deque # Sort(tracker.deque)
    /\ result.kind = "value"

----------------------------------------------------------------------------
(* Properties of Logger, checked under LoggerSpec *)

Routing == {"create_or_get_smoothvalues", "train_log"}

\* C8: the registry holds one tracker of capacity 100 for every metric name
\* observed so far and for no other; a name once present stays; a call adds
\* each (name, value) of its input once to that name's tracker (a new one
\* on the name's first observation) and leaves the other trackers alone.
RegistryRouting ==
    [][/\ DOMAIN smoothvalues' = observed'
       /\ DOMAIN smoothvalues \subseteq DOMAIN smoothvalues'
       /\ \A k \in DOMAIN smoothvalues' : smoothvalues'[k].maxlen = 100
       /\ call'.name \notin Routing => smoothvalues' = smoothvalues
       /\ call'.name \in Routing =>
            \A k \in DOMAIN smoothvalues' :
                IF k \in DOMAIN call'.loss_dict
                THEN LET before == IF k \in DOMAIN smoothvalues
                                   THEN smoothvalues[k].series ELSE <<>>
                     IN  /\ smoothvalues'[k].series = Append(before, call'.loss_dict[k])
                         /\ smoothvalues'[k].count = Len(before) + 1
                ELSE k \in DOMAIN smoothvalues /\ smoothvalues'[k] = smoothvalues[k]]_vars

\* C8 witness: a call observed "loss" again and left "cls_loss" out
RegistryRouted ==
    /\ call.name = "create_or_get_smoothvalues"
    /\ DOMAIN call.loss_dict = {"loss"}
    /\ DOMAIN smoothvalues = Names
    /\ smoothvalues["loss"].count = 2
    /\ smoothvalues["cls_loss"].count = 1

\* C9: the returned mapping has every metric name observed so far as its
\* keys, each with the windowed average of its tracker; a name the input
\* leaves out keeps the value the previous call returned for it.
SnapshotCoversRegistry ==
    [][call'.name \in Routing =>
          /\ DOMAIN returned' = observed'
          /\ DOMAIN call'.loss_dict \subseteq DOMAIN returned'
          /\ \A k \in DOMAIN returned' :
                LET w == WindowOf(smoothvalues'[k])
                IN  IsQuotient(returned'[k], Sum(w), Len(w))
          /\ \A k \in (DOMAIN returned') \ (DOMAIN call'.loss_dict) :
                k \in DOMAIN returned /\ returned'[k] = returned[k]]_vars

\* C9 witness: train_log returned a value for a name its input left out
SnapshotWithAbsentName ==
    /\ call.name = "train_log"
    /\ DOMAIN call.loss_dict = {"loss"}
    /\ DOMAIN returned = Names
    /\ returned["loss"] # returned["cls_loss"]

\* C10: whenever use_tensorboard is set the Logger has a summary writer, so
\* no summary is written without one, also after on() on a Logger that was
\* constructed with use_tensorboard=False.
WriterWhenTensorboard == use_tensorboard => summary_w

====
